---------------------------- MODULE Spec2Model ----------------------------
(***************************************************************************)
(* A model of the farm compilation core: the module identity (ModuleId),   *)
(* the polymorphic module metadata (ModuleMetaData), the shared            *)
(* compilation context (CompilationContext) and the script plugin's hooks  *)
(* (FarmPluginScript).                                                     *)
(*                                                                         *)
(* Text is modelled as a sequence of one-character strings, so "a?b" is    *)
(* <<"a", "?", "b">>.  An optional value is a sequence of length 0 or 1.   *)
(***************************************************************************)
EXTENDS Naturals, Sequences, FiniteSets

VARIABLES
  idIn,        \* the arguments of the ModuleId constructor under study
  moduleId,    \* Option<ModuleId>: the constructed ModuleId
  resolvedOut, \* Option<[root, path]>: the last result of resolved_path(root)
  module,      \* Option<Module>: a module record and its metadata
  accessOut,   \* Option: the outcome of the last typed metadata accessor call
  archive,     \* Option: the archived bytes of `module`
  restored,    \* Option<Module>: the module deserialized from `archive`
  ctxIn,       \* the arguments of CompilationContext::new: config and plugins
  ctxOut,      \* Option<Result<CompilationContext>>: what new returned
  mods,        \* the modules being built, each with the hooks' results so far
  nextMark,    \* context.meta.script.globals: the mark Mark::new() hands out next
  potIn,       \* the resource pot handed to generate_resources
  potOut,      \* Option: what generate_resources returned for potIn
  ids,         \* two ModuleIds side by side, each an Option<ModuleId>
  idKeys,      \* Option<[mode, id]> of each: the last result of id(mode)
  resources    \* Option of each of two resource pots: what generate_resources returned

idVars == <<idIn, moduleId, resolvedOut>>
metaVars == <<module, accessOut, archive, restored>>

ctxVars == <<ctxIn, ctxOut>>

buildVars == <<mods, nextMark>>

potVars == <<potIn, potOut>>

keyVars == <<ids, idKeys>>

emitVars == <<resources>>

vars == <<idVars, metaVars, ctxVars, buildVars, potVars, keyVars, emitVars>>

\* what the operations of one part leave alone
notId == <<metaVars, ctxVars, buildVars, potVars, keyVars, emitVars>>
notMeta == <<idVars, ctxVars, buildVars, potVars, keyVars, emitVars>>
notCtx == <<idVars, metaVars, buildVars, potVars, keyVars, emitVars>>
notBuild == <<idVars, metaVars, ctxVars, potVars, keyVars, emitVars>>
notPot == <<idVars, metaVars, ctxVars, buildVars, keyVars, emitVars>>
notKey == <<idVars, metaVars, ctxVars, buildVars, potVars, emitVars>>
notEmit == <<idVars, metaVars, ctxVars, buildVars, potVars, keyVars>>

None == <<>>
Some(x) == <<x>>

-----------------------------------------------------------------------------
(* Text helpers: what the std string operations used by the code compute.  *)

RECURSIVE IndexFrom(_, _, _)
\* the first index >= i at which character c occurs in s, or 0
IndexFrom(s, c, i) ==
  IF i > Len(s) THEN 0
  ELSE IF s[i] = c THEN i
  ELSE IndexFrom(s, c, i + 1)

\* str::contains(char)
Contains(s, c) == IndexFrom(s, c, 1) # 0

RECURSIVE Split(_, _)
\* str::split(char), collected: the segments between occurrences of c
Split(s, c) ==
  LET i == IndexFrom(s, c, 1)
  IN  IF i = 0 THEN <<s>>
      ELSE <<SubSeq(s, 1, i - 1)>> \o Split(SubSeq(s, i + 1, Len(s)), c)

RECURSIVE Join(_, _)
\* [String]::join(sep)
Join(segs, sep) ==
  IF Len(segs) = 0 THEN <<>>
  ELSE IF Len(segs) = 1 THEN segs[1]
  ELSE segs[1] \o sep \o Join(Tail(segs), sep)

\* whether pat occurs in s at index i
MatchAt(s, pat, i) ==
  /\ i + Len(pat) - 1 <= Len(s)
  /\ SubSeq(s, i, i + Len(pat) - 1) = pat

RECURSIVE ReplaceFrom(_, _, _, _)
ReplaceFrom(s, pat, rep, i) ==
  IF i > Len(s) THEN <<>>
  ELSE IF MatchAt(s, pat, i)
       THEN rep \o ReplaceFrom(s, pat, rep, i + Len(pat))
       ELSE <<s[i]>> \o ReplaceFrom(s, pat, rep, i + 1)

\* str::replace(pat, rep): every non-overlapping match, left to right
Replace(s, pat, rep) == ReplaceFrom(s, pat, rep, 1)

RECURSIVE SeqsUpTo(_, _)
\* every sequence over S of length at most n
SeqsUpTo(S, n) ==
  IF n = 0 THEN {<<>>}
  ELSE LET shorter == SeqsUpTo(S, n - 1)
       IN  shorter \cup {Append(s, x) : s \in shorter, x \in S}

-----------------------------------------------------------------------------
(* ModuleId: crates/core/src/module/mod.rs                                 *)

\* bounds of the ModuleId inputs
MaxDepth == 2     \* components of a resolved path or project root
MaxStrLen == 4    \* characters of a combined "path?query" string

Slash == <<"/">>
Dot == <<".">>
DotDot == <<".", ".">>

\* file and directory names
Names == {<<"a">>, <<"b">>}
QueryKeys == {"k", "l"}
QueryVals == {"v"}
\* the order str compares the keys in
KeyOrder == <<"k", "l">>
FromChars == {"a", "/", "?"}

\* std::path::Path::is_absolute (unix)
IsAbsolute(s) == Len(s) > 0 /\ s[1] = "/"

\* std::path::Path::components (unix), the root left out: empty segments and
\* "." are dropped, except a leading "." of a relative path
PathComponents(s) ==
  LET segs == Split(s, "/")
      keep(i) == /\ segs[i] # <<>>
                 /\ (segs[i] = Dot => (i = 1 /\ ~IsAbsolute(s)))
      RECURSIVE pick(_)
      pick(i) == IF i > Len(segs) THEN <<>>
                 ELSE (IF keep(i) THEN <<segs[i]>> ELSE <<>>) \o pick(i + 1)
  IN  pick(1)

\* the text of a path with the given components
PathText(abs, comps) == (IF abs THEN Slash ELSE <<>>) \o Join(comps, Slash)

\* two paths that differ in separators only
SamePath(p, q) ==
  /\ IsAbsolute(p) = IsAbsolute(q)
  /\ PathComponents(p) = PathComponents(q)

RECURSIVE CommonPrefixLen(_, _)
CommonPrefixLen(a, b) ==
  IF Len(a) = 0 \/ Len(b) = 0 \/ Head(a) # Head(b) THEN 0
  ELSE 1 + CommonPrefixLen(Tail(a), Tail(b))

\* farmfe_utils::relative(from, to), both absolute: `to` rewritten relative to
\* `from`, one ".." for each component of `from` below the common prefix,
\* "/"-separated
relative(from, to) ==
  LET f == PathComponents(from)
      t == PathComponents(to)
      n == CommonPrefixLen(f, t)
  IN  Join([i \in 1..(Len(f) - n) |-> DotDot] \o SubSeq(t, n + 1, Len(t)), Slash)

\* farmfe_utils::stringify_query: "" for an empty query, otherwise "?" and the
\* "k=v" pairs in key order, joined by "&"
stringify_query(query) ==
  LET keys == SelectSeq(KeyOrder, LAMBDA k : k \in DOMAIN query)
      pair(k) == <<k, "=", query[k]>>
  IN  IF DOMAIN query = {} THEN <<>>
      ELSE <<"?">> \o Join([i \in 1..Len(keys) |-> pair(keys[i])], <<"&">>)

\* ModuleId::new(resolved_path, query, cwd)
ModuleId_new(resolved_path, query, cwd) ==
  [relative_path |-> IF IsAbsolute(resolved_path)
                     THEN relative(cwd, resolved_path)
                     ELSE resolved_path,
   query_string |-> stringify_query(query)]

\* impl From<&str> for ModuleId: the first two segments of rp.split('?')
ModuleId_from(rp) ==
  IF Contains(rp, "?")
  THEN LET sp == Split(rp, "?")
       IN  [relative_path |-> sp[1], query_string |-> sp[2]]
  ELSE [relative_path |-> rp, query_string |-> <<>>]

\* impl ToString for ModuleId
ModuleId_to_string(id) == id.relative_path \o id.query_string

\* relative_path::RelativePath::components: "/"-separated, empty segments skipped
RelativeComponents(s) == SelectSeq(Split(s, "/"), LAMBDA c : c # <<>>)

\* std::path::PathBuf::pop: the last component removed, if there is one
PathPop(buf) ==
  LET comps == PathComponents(buf)
  IN  IF Len(comps) = 0 THEN buf
      ELSE PathText(IsAbsolute(buf), SubSeq(comps, 1, Len(comps) - 1))

\* std::path::PathBuf::push of a relative component
PathPush(buf, c) ==
  IF Len(buf) = 0 \/ buf[Len(buf)] = "/" THEN buf \o c ELSE buf \o Slash \o c

RECURSIVE to_logical_path(_, _)
\* RelativePath::to_logical_path(base): "." leaves the base alone, ".." pops
\* a component of it, a name is pushed onto it
to_logical_path(comps, base) ==
  IF Len(comps) = 0 THEN base
  ELSE LET c == Head(comps)
           next == IF c = Dot THEN base
                   ELSE IF c = DotDot THEN PathPop(base)
                   ELSE PathPush(base, c)
       IN  to_logical_path(Tail(comps), next)

RECURSIVE to_path(_, _)
\* RelativePath::to_path(base): every component appended, ".." included
to_path(comps, base) ==
  IF Len(comps) = 0 THEN base
  ELSE to_path(Tail(comps), PathPush(base, Head(comps)))

\* a resolved_path that joins root and relative_path without resolving ".."
resolved_path_joined(id, root) ==
  to_path(RelativeComponents(id.relative_path), root)

\* ModuleId::resolved_path(root)
resolved_path(id, root) ==
  to_logical_path(RelativeComponents(id.relative_path), root)

AbsolutePaths == {PathText(TRUE, c) : c \in SeqsUpTo(Names, MaxDepth)}
RelativePaths == {PathText(FALSE, c) : c \in SeqsUpTo(Names, MaxDepth) \ {<<>>}}
\* a project root is absolute; the tests also build the ids of relative paths
\* against the empty root
Roots == AbsolutePaths \cup {<<>>}
Queries == UNION {[D -> QueryVals] : D \in SUBSET QueryKeys}

NoArgs == [kind |-> "none", str |-> <<>>, resolved_path |-> <<>>,
           query |-> <<>>, cwd |-> <<>>]
FromArgs == {[NoArgs EXCEPT !.kind = "from", !.str = s] :
               s \in SeqsUpTo(FromChars, MaxStrLen)}
NewArgs ==
  LET args(p, q, r) ==
        [NoArgs EXCEPT !.kind = "new", !.resolved_path = p, !.query = q, !.cwd = r]
  IN  {args(p, q, r) : p \in AbsolutePaths, q \in Queries, r \in AbsolutePaths}
      \cup {args(p, q, r) : p \in RelativePaths, q \in Queries, r \in Roots}

IdleModuleId ==
  /\ idIn = NoArgs
  /\ moduleId = None
  /\ resolvedOut = None

InitModuleId ==
  /\ idIn \in FromArgs \cup NewArgs
  /\ moduleId = None
  /\ resolvedOut = None

\* ModuleId::from(idIn.str)
DoFrom ==
  /\ idIn.kind = "from"
  /\ moduleId = None
  /\ moduleId' = Some(ModuleId_from(idIn.str))
  /\ UNCHANGED <<idIn, resolvedOut, notId>>

\* ModuleId::new(idIn.resolved_path, idIn.query, idIn.cwd)
DoNew ==
  /\ idIn.kind = "new"
  /\ moduleId = None
  /\ moduleId' = Some(ModuleId_new(idIn.resolved_path, idIn.query, idIn.cwd))
  /\ UNCHANGED <<idIn, resolvedOut, notId>>

\* module_id.resolved_path(root)
DoResolvedPath ==
  /\ moduleId # None
  /\ \E root \in Roots :
       resolvedOut' = Some([root |-> root, path |-> resolved_path(moduleId[1], root)])
  /\ UNCHANGED <<idIn, moduleId, notId>>

NextModuleId == DoFrom \/ DoNew \/ DoResolvedPath

-----------------------------------------------------------------------------
(* ModuleId::id(mode) of two ModuleIds side by side                        *)

MaxKeyLen == 3    \* characters of a combined string converted to a ModuleId
MaxKeyDepth == 1  \* components of a resolved path or root given to ModuleId::new

\* the two ModuleIds that are compared
Slots == {1, 2}

\* enum Mode
Development == "development"
Production == "production"

\* ModuleId::hash: the 4-byte Blake2b digest of to_string(), hex-encoded.  The
\* digest is left uninterpreted: it is a function of its input and of nothing
\* else
ModuleId_hash(id) == [blake2b_4_hex_of |-> ModuleId_to_string(id)]

\* ModuleId::id(mode)
ModuleId_id(id, mode) ==
  IF mode = Development THEN ModuleId_to_string(id) ELSE ModuleId_hash(id)

KeyStrings == SeqsUpTo(FromChars, MaxKeyLen)
KeyAbsolutePaths == {PathText(TRUE, c) : c \in SeqsUpTo(Names, MaxKeyDepth)}
KeyRelativePaths == {PathText(FALSE, c) : c \in SeqsUpTo(Names, MaxKeyDepth) \ {<<>>}}

IdleKeys ==
  /\ ids = [i \in Slots |-> None]
  /\ idKeys = [i \in Slots |-> None]

\* ids[i] = ModuleId::from(s)
KeyFrom(i) ==
  /\ ids[i] = None
  /\ \E s \in KeyStrings : ids' = [ids EXCEPT ![i] = Some(ModuleId_from(s))]
  /\ UNCHANGED <<idKeys, notKey>>

\* ids[i] = ModuleId::new(p, q, root): an absolute path against an absolute
\* root, or a relative path
KeyNew(i) ==
  /\ ids[i] = None
  /\ \/ \E p \in KeyAbsolutePaths, q \in Queries, root \in KeyAbsolutePaths :
          ids' = [ids EXCEPT ![i] = Some(ModuleId_new(p, q, root))]
     \/ \E p \in KeyRelativePaths, q \in Queries, root \in KeyAbsolutePaths \cup {<<>>} :
          ids' = [ids EXCEPT ![i] = Some(ModuleId_new(p, q, root))]
  /\ UNCHANGED <<idKeys, notKey>>

\* ids[i].id(mode)
KeyId(i) ==
  /\ ids[i] # None
  /\ \E mode \in {Development, Production} :
       idKeys' = [idKeys EXCEPT ![i] = Some([mode |-> mode, id |-> ModuleId_id(ids[i][1], mode)])]
  /\ UNCHANGED <<ids, notKey>>

NextKeys ==
  \/ \E i \in Slots : KeyFrom(i)
  \/ \E i \in Slots : KeyNew(i)
  \/ \E i \in Slots : KeyId(i)

-----------------------------------------------------------------------------
(* Module and ModuleMetaData: crates/core/src/module/mod.rs                *)

MaxImports == 2   \* entries of a custom metadata's sequence field

\* the concrete types behind ModuleMetaData::Custom
CustomTypes == {"EmptyModuleMetaData", "StructModuleData", "OtherModuleData"}

\* enum ModuleSystem
EsModule == [tag |-> "EsModule", name |-> ""]
CommonJs == [tag |-> "CommonJs", name |-> ""]
Hybrid == [tag |-> "Hybrid", name |-> ""]
ModuleSystem == {EsModule, CommonJs, Hybrid, [tag |-> "Custom", name |-> "umd"]}

\* enum ModuleType
MT(tag) == [tag |-> tag, name |-> ""]
MTCustom(name) == [tag |-> "Custom", name |-> name]

\* ModuleType::is_typescript
is_typescript(t) == t = MT("Ts") \/ t = MT("Tsx")

\* ModuleType::is_script
is_script(t) == t \in {MT("Js"), MT("Jsx"), MT("Ts"), MT("Tsx")}

\* ModuleType::from_ext
from_ext(ext) ==
  CASE ext = "js" -> MT("Js")
    [] ext = "jsx" -> MT("Jsx")
    [] ext = "ts" -> MT("Ts")
    [] ext = "tsx" -> MT("Tsx")
    [] ext = "css" -> MT("Css")
    [] ext = "html" -> MT("Html")
    [] OTHER -> MTCustom(ext)

\* enum ModuleMetaData; custom_type is the concrete type of a Custom value
MetaScript(d) == [variant |-> "Script", custom_type |-> "", data |-> d]
MetaCss(d) == [variant |-> "Css", custom_type |-> "", data |-> d]
MetaHtml(d) == [variant |-> "Html", custom_type |-> "", data |-> d]
MetaCustom(T, d) == [variant |-> "Custom", custom_type |-> T, data |-> d]

\* struct EmptyModuleMetaData
EmptyModuleMetaData == [unit |-> TRUE]

\* Module::new(id)
Module_new(id) ==
  [id |-> id,
   module_type |-> MTCustom("unknown"),
   meta |-> MetaCustom("EmptyModuleMetaData", EmptyModuleMetaData),
   module_groups |-> {},
   resource_pot |-> None,
   side_effects |-> FALSE,
   source_map_chain |-> <<>>,
   external |-> FALSE]

\* what a call returns: a reference to data, or the panic that unwinds it
Returned(d) == [panic |-> FALSE, msg |-> "", value |-> Some(d)]
Panic(msg) == [panic |-> TRUE, msg |-> msg, value |-> None]

\* as_css without the test of the variant
as_css_unchecked(meta) == Returned(meta.data)

\* ModuleMetaData::as_script, as_script_mut
as_script(meta) ==
  IF meta.variant = "Script" THEN Returned(meta.data)
  ELSE Panic("ModuleMetaData is not Script")

\* ModuleMetaData::as_css, as_css_mut
as_css(meta) ==
  IF meta.variant = "Css" THEN Returned(meta.data)
  ELSE Panic("ModuleMetaData is not css")

\* ModuleMetaData::as_html, as_html_mut
as_html(meta) ==
  IF meta.variant = "Html" THEN Returned(meta.data)
  ELSE Panic("ModuleMetaData is not html")

\* Downcast::downcast_ref::<T>, downcast_mut::<T>
downcast(meta, T) == IF meta.custom_type = T THEN Some(meta.data) ELSE None

\* ModuleMetaData::as_custom::<T>, as_custom_mut::<T>
as_custom(meta, T) ==
  IF meta.variant = "Custom"
  THEN IF downcast(meta, T) # None
       THEN Returned(downcast(meta, T)[1])
       ELSE Panic("custom meta type is not serializable")
  ELSE Panic("ModuleMetaData is not Custom")

Accessors == {"as_script", "as_script_mut", "as_css", "as_css_mut",
              "as_html", "as_html_mut", "as_custom", "as_custom_mut"}
MutAccessors == {"as_script_mut", "as_css_mut", "as_html_mut", "as_custom_mut"}

\* the variant an accessor names
NamedVariant(acc) ==
  CASE acc \in {"as_script", "as_script_mut"} -> "Script"
    [] acc \in {"as_css", "as_css_mut"} -> "Css"
    [] acc \in {"as_html", "as_html_mut"} -> "Html"
    [] acc \in {"as_custom", "as_custom_mut"} -> "Custom"

\* the call meta.acc() or meta.acc::<T>()
Access(meta, acc, T) ==
  CASE NamedVariant(acc) = "Script" -> as_script(meta)
    [] NamedVariant(acc) = "Css" -> as_css(meta)
    [] NamedVariant(acc) = "Html" -> as_html(meta)
    [] NamedVariant(acc) = "Custom" -> as_custom(meta, T)

\* metadata values of every variant
ScriptDatas == {[ast |-> <<"ModuleDecl">>, top_level_mark |-> 1, unresolved_mark |-> 2,
                 module_system |-> EsModule],
                [ast |-> <<"Stmt">>, top_level_mark |-> 1, unresolved_mark |-> 2,
                 module_system |-> CommonJs]}
CssDatas == {[ast |-> "Stylesheet"]}
HtmlDatas == {[ast |-> "Document"]}
\* the test's StructModuleData { ast: String, imports: Vec<String> }
StructModuleDatas == {[ast |-> "ast", imports |-> i] :
                        i \in SeqsUpTo({"./index", "./lib"}, MaxImports)}
OtherModuleDatas == {[ast |-> "ast", imports |-> <<>>], [flag |-> TRUE]}
CustomDatas(T) ==
  CASE T = "EmptyModuleMetaData" -> {EmptyModuleMetaData}
    [] T = "StructModuleData" -> StructModuleDatas
    [] T = "OtherModuleData" -> OtherModuleDatas
Metas ==
  {MetaScript(d) : d \in ScriptDatas} \cup {MetaCss(d) : d \in CssDatas}
  \cup {MetaHtml(d) : d \in HtmlDatas}
  \cup UNION {{MetaCustom(T, d) : d \in CustomDatas(T)} : T \in CustomTypes}

EmptyQuery == [k \in {} |-> "v"]
\* the ids of the test: ModuleId::new("1", {}, ""), ModuleId::new("2", {}, "")
GroupIds == {ModuleId_new(n, EmptyQuery, <<>>) : n \in Names}
ModuleIds == {ModuleId_new(PathText(TRUE, <<n>>), EmptyQuery, Slash) : n \in Names}

\* the values a caller may store through the reference a _mut accessor returns
Writable(meta) ==
  CASE meta.variant = "Script" -> ScriptDatas
    [] meta.variant = "Css" -> CssDatas
    [] meta.variant = "Html" -> HtmlDatas
    [] meta.variant = "Custom" -> CustomDatas(meta.custom_type)

IdleMeta ==
  /\ module = None
  /\ accessOut = None
  /\ archive = None
  /\ restored = None

InitMeta ==
  /\ \E id \in ModuleIds, g \in SUBSET GroupIds, m \in Metas :
       module = Some([Module_new(id) EXCEPT !.module_groups = g, !.meta = m])
  /\ accessOut = None
  /\ archive = None
  /\ restored = None

\* a call of one of the typed accessors on module.meta; through the reference
\* a _mut accessor returns, the caller stores a value of the accessed type
DoAccess ==
  /\ module # None
  /\ accessOut = None
  /\ archive = None
  /\ \E acc \in Accessors, T \in CustomTypes :
       LET meta == module[1].meta
           out == Access(meta, acc, T)
           call == [accessor |-> acc, T |-> T, on |-> meta,
                    panic |-> out.panic, msg |-> out.msg, value |-> out.value]
       IN  /\ NamedVariant(acc) # "Custom" => T = "EmptyModuleMetaData"
           /\ accessOut' = Some(call)
           /\ IF acc \in MutAccessors /\ ~out.panic
              THEN \E d \in Writable(meta) :
                     module' = Some([module[1] EXCEPT !.meta.data = d])
              ELSE UNCHANGED module
  /\ UNCHANGED <<archive, restored, notMeta>>

\* every order a HashSet may be iterated in
Orders(S) ==
  {o \in [1..Cardinality(S) -> S] : \A i, j \in 1..Cardinality(S) : o[i] = o[j] => i = j}

\* the name a #[cache_item(CustomModuleMetaData)] type is registered under
TypeName(T) == <<"registered", T>>

\* the registered type of a name
RegisteredType(name) == CHOOSE T \in CustomTypes : TypeName(T) = name

\* rkyv::to_bytes(&module): the fields in declaration order, the set as the
\* sequence of its members in iteration order, a Custom value under the name
\* of its registered type
Serialize(m, order) ==
  [id |-> m.id,
   module_type |-> m.module_type,
   module_groups |-> order,
   resource_pot |-> m.resource_pot,
   meta |-> [variant |-> m.meta.variant,
             type_name |-> IF m.meta.variant = "Custom"
                           THEN TypeName(m.meta.custom_type) ELSE <<>>,
             payload |-> m.meta.data],
   side_effects |-> m.side_effects,
   source_map_chain |-> m.source_map_chain,
   external |-> m.external]

\* a deserialization that rebuilds every Custom value as the placeholder type
DeserializeAsPlaceholder(a) ==
  [id |-> a.id,
   module_type |-> a.module_type,
   module_groups |-> {a.module_groups[i] : i \in 1..Len(a.module_groups)},
   resource_pot |-> a.resource_pot,
   meta |-> IF a.meta.variant = "Custom"
            THEN MetaCustom("EmptyModuleMetaData", EmptyModuleMetaData)
            ELSE [variant |-> a.meta.variant, custom_type |-> "", data |-> a.meta.payload],
   side_effects |-> a.side_effects,
   source_map_chain |-> a.source_map_chain,
   external |-> a.external]

\* archived.deserialize(..): the set rebuilt from the sequence, a Custom value
\* rebuilt as the type registered under the archived name
Deserialize(a) ==
  [id |-> a.id,
   module_type |-> a.module_type,
   module_groups |-> {a.module_groups[i] : i \in 1..Len(a.module_groups)},
   resource_pot |-> a.resource_pot,
   meta |-> [variant |-> a.meta.variant,
             custom_type |-> IF a.meta.variant = "Custom"
                             THEN RegisteredType(a.meta.type_name) ELSE "",
             data |-> a.meta.payload],
   side_effects |-> a.side_effects,
   source_map_chain |-> a.source_map_chain,
   external |-> a.external]

\* let bytes = rkyv::to_bytes::<_, 256>(&module)
DoSerialize ==
  /\ module # None
  /\ archive = None
  /\ \E order \in Orders(module[1].module_groups) :
       archive' = Some(Serialize(module[1], order))
  /\ UNCHANGED <<module, accessOut, restored, notMeta>>

\* let deserialized_module: Module = archived.deserialize(..)
DoDeserialize ==
  /\ archive # None
  /\ restored = None
  /\ restored' = Some(Deserialize(archive[1]))
  /\ UNCHANGED <<module, accessOut, archive, notMeta>>

NextMeta == DoAccess \/ DoSerialize \/ DoDeserialize

-----------------------------------------------------------------------------
(* CompilationContext: crates/core/src/context/mod.rs                      *)

MaxPlugins == 3   \* plugins handed to CompilationContext::new

Modes == {"development", "production"}
Configs == [mode : Modes, root : {Slash, PathText(TRUE, <<<<"a">>>>)}]

\* what a plugin's config hook does to the configuration
ConfigHooks == {"keep", "set_production", "set_development", "set_root", "fail"}

\* one plugin's config hook on `config`: Ok(()) with the configuration
\* mutated in place, or Err
PluginConfig(hook, config) ==
  CASE hook = "keep" -> [ok |-> TRUE, config |-> config]
    [] hook = "set_production" ->
         [ok |-> TRUE, config |-> [config EXCEPT !.mode = "production"]]
    [] hook = "set_development" ->
         [ok |-> TRUE, config |-> [config EXCEPT !.mode = "development"]]
    [] hook = "set_root" ->
         [ok |-> TRUE, config |-> [config EXCEPT !.root = PathText(TRUE, <<<<"b">>>>)]]
    [] hook = "fail" -> [ok |-> FALSE, config |-> config]

RECURSIVE DriverConfigFrom(_, _, _)
DriverConfigFrom(plugins, config, i) ==
  IF i > Len(plugins) THEN [ok |-> TRUE, config |-> config, error |-> None]
  ELSE LET r == PluginConfig(plugins[i], config)
       IN  IF r.ok THEN DriverConfigFrom(plugins, r.config, i + 1)
           ELSE [ok |-> FALSE, config |-> r.config,
                 error |-> Some([plugin |-> i, hook |-> "config"])]

\* PluginDriver::config(&mut config): every plugin's config hook in list
\* order on the one configuration, stopping at the first that fails
PluginDriver_config(plugins, config) == DriverConfigFrom(plugins, config, 1)

\* ModuleGraph::new(), ModuleGroupMap::new(), ResourcePotGraph::new(),
\* HashMap::new(): nothing in them
EmptyCollection == {}

\* ContextMetaData::new(): fresh source maps and Globals, an empty custom map;
\* Mark 0 is the root mark of fresh Globals, so the next mark is 1
ContextMetaData_new ==
  [script |-> [cm |-> {}, globals |-> [next_mark |-> 1]],
   css |-> [cm |-> {}],
   html |-> [cm |-> {}],
   custom |-> {}]

Ok(v) == [ok |-> TRUE, value |-> Some(v), error |-> None]
Err(e) == [ok |-> FALSE, value |-> None, error |-> Some(e)]

\* the context new builds once the config hook has run
BuildContext(config, plugins) ==
  [module_graph |-> EmptyCollection,
   module_group_map |-> EmptyCollection,
   resource_pot_graph |-> EmptyCollection,
   resources_map |-> EmptyCollection,
   config |-> config,
   plugin_driver |-> plugins,
   cache_manager |-> EmptyCollection,
   meta |-> ContextMetaData_new]

\* a new without the `?` after plugin_driver.config(&mut config)
CompilationContext_new_unchecked(config, plugins) ==
  Ok(BuildContext(PluginDriver_config(plugins, config).config, plugins))

\* CompilationContext::new(config, plugins)
CompilationContext_new(config, plugins) ==
  LET hook == PluginDriver_config(plugins, config)
  IN  IF ~hook.ok THEN Err(hook.error[1])
      ELSE Ok(BuildContext(hook.config, plugins))

IdleCtx ==
  /\ ctxIn = [config |-> [mode |-> "development", root |-> Slash], plugins |-> <<>>]
  /\ ctxOut = None

InitCtx ==
  /\ ctxIn \in [config : Configs, plugins : SeqsUpTo(ConfigHooks, MaxPlugins)]
  /\ ctxOut = None

\* CompilationContext::new(ctxIn.config, ctxIn.plugins)
DoNewContext ==
  /\ ctxOut = None
  /\ ctxOut' = Some(CompilationContext_new(ctxIn.config, ctxIn.plugins))
  /\ UNCHANGED <<ctxIn, notCtx>>

NextCtx == DoNewContext

-----------------------------------------------------------------------------
(* FarmPluginScript: crates/plugin_script/src/lib.rs                       *)

MaxBody == 2      \* items of a source file
MaxModules == 2   \* modules built concurrently

\* what a hook returns: Ok(Some(v)), Ok(None) or Err(e)
Handled(v) == [kind |-> "handled", value |-> Some(v), error |-> None]
NotApplicable == [kind |-> "none", value |-> None, error |-> None]
Failed(e) == [kind |-> "error", value |-> None, error |-> Some(e)]

\* The items of a source text and of its AST:
\*   "import"       an import or export declaration     (ModuleItem::ModuleDecl)
\*   "import_type"  a type-only import, TypeScript      (ModuleItem::ModuleDecl)
\*   "stmt"         a plain statement                   (ModuleItem::Stmt)
\*   "typed"        a statement with type annotations   (ModuleItem::Stmt)
\*   "jsx"          a statement with JSX syntax         (ModuleItem::Stmt)
\*   "bad"          text no syntax accepts
Items == {"import", "import_type", "stmt", "typed", "jsx", "bad"}

\* matches!(item, ModuleItem::ModuleDecl(_))
IsModuleDecl(item) == item \in {"import", "import_type"}

Exts == {"js", "jsx", "ts", "tsx", "css", "html", "png"}
ModuleTypes == {MT("Js"), MT("Jsx"), MT("Ts"), MT("Tsx"), MT("Css"), MT("Html"),
                MT("Asset"), MTCustom("png")}

\* farmfe_toolkit::script::module_type_from_id: the module type of the
\* path's extension
module_type_from_id(id) == from_ext(id.ext)

\* farmfe_toolkit::script::syntax_from_module_type
syntax_from_module_type(t) ==
  CASE t = MT("Js") -> Some([typescript |-> FALSE, jsx |-> FALSE])
    [] t = MT("Jsx") -> Some([typescript |-> FALSE, jsx |-> TRUE])
    [] t = MT("Ts") -> Some([typescript |-> TRUE, jsx |-> FALSE])
    [] t = MT("Tsx") -> Some([typescript |-> TRUE, jsx |-> TRUE])
    [] OTHER -> None

\* farmfe_toolkit::fs::read_file_utf8
read_file_utf8(file) ==
  IF file.readable THEN Ok(file.body) ELSE Err("io")

\* farmfe_toolkit::script::parse_module: the AST of the text, or an error
\* when an item is not of the syntax
parse_module(content, syntax) ==
  LET accepted(item) ==
        CASE item = "bad" -> FALSE
          [] item = "jsx" -> syntax.jsx
          [] item \in {"typed", "import_type"} -> syntax.typescript
          [] OTHER -> TRUE
  IN  IF \A k \in 1..Len(content) : accepted(content[k])
      THEN Ok([body |-> content, passes |-> <<>>])
      ELSE Err("parse")

\* an AST visited by a pass that rewrites every item, or drops it; `rewrite`
\* maps an item to the items that take its place
RECURSIVE Flatten(_)
Flatten(seqs) ==
  IF Len(seqs) = 0 THEN <<>> ELSE Head(seqs) \o Flatten(Tail(seqs))

Visit(ast, pass, rewrite) ==
  [body |-> Flatten([k \in 1..Len(ast.body) |-> rewrite[ast.body[k]]]),
   passes |-> Append(ast.passes, pass)]

KeepItems == [item \in Items |-> <<item>>]

\* swc resolver(unresolved_mark, top_level_mark, typescript): the identifiers
\* get their syntax contexts, the items stay
resolver(ast) == Visit(ast, "resolver", KeepItems)

StripItems ==
  [item \in Items |->
     CASE item = "import_type" -> <<>>
       [] item = "typed" -> <<"stmt">>
       [] OTHER -> <<item>>]

\* swc typescript::strip: annotations removed, type-only imports dropped
strip(ast) == Visit(ast, "strip", StripItems)

\* swc typescript::strip_with_jsx: strip for a text that holds JSX
strip_with_jsx(ast) == Visit(ast, "strip_with_jsx", StripItems)

\* swc react::react: JSX rewritten into calls
react(ast) ==
  Visit(ast, "react", [item \in Items |-> IF item = "jsx" THEN <<"stmt">> ELSE <<item>>])

\* Globals made anew for the call, instead of the context's
FreshGlobals(ctx_globals) == ContextMetaData_new.script.globals.next_mark

\* the Globals a hook runs under: GLOBALS.set(&context.meta.script.globals, ..)
ScriptGlobals(ctx_globals) == ctx_globals

\* swc Mark::new() under Globals whose next free mark is `next`
Mark_new(next) == [mark |-> next, next |-> next + 1]

\* a load that claims the typed script types only
FarmPluginScript_load_typed_only(param, file) ==
  LET module_type == module_type_from_id(param.resolved_path)
      content == read_file_utf8(file)
  IN  IF is_typescript(module_type)
      THEN [read |-> TRUE,
            out |-> IF content.ok
                    THEN Handled([content |-> content.value[1],
                                  module_type |-> module_type])
                    ELSE Failed(content.error[1])]
      ELSE [read |-> FALSE, out |-> NotApplicable]

\* FarmPluginScript::load: the hook's result, and whether the file was read
FarmPluginScript_load(param, file) ==
  LET module_type == module_type_from_id(param.resolved_path)
  IN  IF is_script(module_type)
      THEN LET content == read_file_utf8(file)
           IN  [read |-> TRUE,
                out |-> IF content.ok
                        THEN Handled([content |-> content.value[1],
                                      module_type |-> module_type])
                        ELSE Failed(content.error[1])]
      ELSE [read |-> FALSE, out |-> NotApplicable]

\* the module system parse records for a body
ClassifyModuleSystem(body) ==
  IF \E k \in 1..Len(body) : IsModuleDecl(body[k]) THEN EsModule ELSE CommonJs

\* FarmPluginScript::parse up to its first Mark::new(): Ok(None) for a module
\* type without a script syntax, the parse error, or the parsed module and
\* the top-level mark
FarmPluginScript_parse_begin(param, globals) ==
  LET syntax == syntax_from_module_type(param.module_type)
  IN  IF syntax = None THEN [out |-> Some(NotApplicable), locals |-> None, next |-> globals]
      ELSE LET swc_module == parse_module(param.content, syntax[1])
               top == Mark_new(globals)
           IN  IF ~swc_module.ok
               THEN [out |-> Some(Failed(swc_module.error[1])), locals |-> None,
                     next |-> globals]
               ELSE [out |-> None,
                     locals |-> Some([swc_module |-> swc_module.value[1],
                                      top_level_mark |-> top.mark]),
                     next |-> top.next]

\* FarmPluginScript::parse from its second Mark::new() on: the resolver, the
\* module system and the Script metadata
FarmPluginScript_parse_finish(locals, globals) ==
  LET unresolved == Mark_new(globals)
      swc_module == resolver(locals.swc_module)
      meta == [ast |-> swc_module,
               top_level_mark |-> locals.top_level_mark,
               unresolved_mark |-> unresolved.mark,
               module_system |-> ClassifyModuleSystem(swc_module.body)]
  IN  [out |-> Handled(MetaScript(meta)), next |-> unresolved.next]

\* DepsAnalyzer::analyze_deps: one dependency for each import or export
analyze(ast) ==
  SelectSeq(ast.body, IsModuleDecl)

\* FarmPluginScript::analyze_deps: the hook's result and param.deps
FarmPluginScript_analyze_deps(m) ==
  IF is_script(m.module_type[1])
  THEN LET script == as_script(m.meta[1])
       IN  IF script.panic THEN [out |-> Failed(script.msg), deps |-> m.deps]
           ELSE [out |-> Handled(TRUE), deps |-> m.deps \o analyze(script.value[1].ast)]
  ELSE [out |-> NotApplicable, deps |-> m.deps]

\* the passes process_module runs on the AST of a module of the given type
Downgrade(module_type, ast) ==
  CASE module_type = MT("Js") -> ast
    [] module_type = MT("Jsx") -> react(ast)
    [] module_type = MT("Ts") -> strip(ast)
    [] module_type = MT("Tsx") -> react(strip_with_jsx(ast))
    [] OTHER -> ast

\* a process_module that classifies the module system again, from the AST
\* it leaves behind
FarmPluginScript_process_module_reclassify(module_type, meta) ==
  IF is_typescript(module_type)
  THEN LET done == Downgrade(module_type, meta.data.ast)
       IN  [out |-> Handled(TRUE),
            meta |-> [meta EXCEPT !.data.ast = done,
                                  !.data.module_system = ClassifyModuleSystem(done.body)]]
  ELSE [out |-> Handled(TRUE), meta |-> meta]

\* FarmPluginScript::process_module: the hook's result and param.meta
FarmPluginScript_process_module(module_type, meta) ==
  IF is_typescript(module_type)
  THEN LET script == as_script(meta)
       IN  IF script.panic THEN [out |-> Failed(script.msg), meta |-> meta]
           ELSE [out |-> Handled(TRUE),
                 meta |-> [meta EXCEPT
                             !.data.ast = Downgrade(module_type, script.value[1].ast)]]
  ELSE [out |-> Handled(TRUE), meta |-> meta]

\* a module the build driver hands to the hooks: its path, the file behind
\* it, the module type the next plugin's load hook gives it when the script
\* plugin passes, and the hooks' results so far
NewBuild(ext, body, readable, other_type) ==
  [resolved_path |-> [ext |-> ext],
   file |-> [body |-> body, readable |-> readable],
   other_type |-> other_type,
   stage |-> "queued",
   read |-> FALSE,
   module_type |-> None,
   content |-> None,
   load_out |-> None,
   locals |-> None,
   parse_out |-> None,
   meta |-> None,
   deps |-> <<>>,
   deps_out |-> None,
   process_out |-> None]

\* one module of any shape
AnyBuilds ==
  {NewBuild(e, b, r, t) :
     e \in Exts, b \in SeqsUpTo(Items, MaxBody), r \in BOOLEAN,
     t \in ModuleTypes}

\* the modules of a project built side by side
ProjectBuilds == {NewBuild("ts", <<"import_type", "typed">>, TRUE, MT("Ts")),
                  NewBuild("tsx", <<"typed", "jsx">>, TRUE, MT("Tsx")),
                  NewBuild("jsx", <<"jsx">>, TRUE, MT("Jsx")),
                  NewBuild("js", <<"import">>, TRUE, MT("Js")),
                  NewBuild("css", <<"stmt">>, TRUE, MT("Css"))}

\* the metadata a plugin other than the script plugin parses a module into
OtherMeta(module_type) ==
  CASE module_type = MT("Css") -> MetaCss([ast |-> "Stylesheet"])
    [] module_type = MT("Html") -> MetaHtml([ast |-> "Document"])
    [] OTHER -> MetaCustom("EmptyModuleMetaData", EmptyModuleMetaData)

IdleBuild ==
  /\ mods = <<>>
  /\ nextMark = ContextMetaData_new.script.globals.next_mark

InitBuild ==
  /\ mods \in {<<m>> : m \in AnyBuilds} \cup [1..MaxModules -> ProjectBuilds]
  /\ nextMark = ContextMetaData_new.script.globals.next_mark

\* the script plugin's load hook on module i
Load(i) ==
  /\ mods[i].stage = "queued"
  /\ LET m == mods[i]
         r == FarmPluginScript_load([resolved_path |-> m.resolved_path], m.file)
     IN  mods' = [mods EXCEPT ![i] =
           [m EXCEPT !.load_out = Some(r.out),
                     !.read = r.read,
                     !.module_type = IF r.out.kind = "handled"
                                     THEN Some(r.out.value[1].module_type) ELSE None,
                     !.content = IF r.out.kind = "handled"
                                 THEN Some(r.out.value[1].content) ELSE None,
                     !.stage = CASE r.out.kind = "handled" -> "loaded"
                                 [] r.out.kind = "none" -> "unclaimed"
                                 [] r.out.kind = "error" -> "failed"]]
  /\ UNCHANGED <<nextMark, notBuild>>

\* the script plugin passed: another plugin loads module i, as its own
\* module type
OtherLoad(i) ==
  /\ mods[i].stage = "unclaimed"
  /\ mods' = [mods EXCEPT ![i] =
       [mods[i] EXCEPT !.module_type = Some(mods[i].other_type),
                       !.content = Some(mods[i].file.body),
                       !.stage = "loaded"]]
  /\ UNCHANGED <<nextMark, notBuild>>

\* the script plugin's parse hook on module i, up to its first Mark::new()
ParseBegin(i) ==
  /\ mods[i].stage = "loaded"
  /\ LET m == mods[i]
         r == FarmPluginScript_parse_begin(
                [module_type |-> m.module_type[1], content |-> m.content[1]],
                ScriptGlobals(nextMark))
     IN  /\ mods' = [mods EXCEPT ![i] =
               [m EXCEPT !.parse_out = r.out,
                         !.locals = r.locals,
                         !.stage = CASE r.out = None -> "marking"
                                     [] r.out # None /\ r.out[1].kind = "none" -> "unparsed"
                                     [] OTHER -> "failed"]]
         /\ nextMark' = r.next
  /\ UNCHANGED notBuild

\* the rest of the parse hook on module i, from its second Mark::new()
ParseFinish(i) ==
  /\ mods[i].stage = "marking"
  /\ LET m == mods[i]
         r == FarmPluginScript_parse_finish(m.locals[1], ScriptGlobals(nextMark))
     IN  /\ mods' = [mods EXCEPT ![i] =
               [m EXCEPT !.parse_out = Some(r.out),
                         !.locals = None,
                         !.meta = r.out.value,
                         !.stage = "parsed"]]
         /\ nextMark' = r.next
  /\ UNCHANGED notBuild

\* the script plugin passed: another plugin parses module i
OtherParse(i) ==
  /\ mods[i].stage = "unparsed"
  /\ mods' = [mods EXCEPT ![i] =
       [mods[i] EXCEPT !.meta = Some(OtherMeta(mods[i].module_type[1])),
                       !.stage = "parsed"]]
  /\ UNCHANGED <<nextMark, notBuild>>

\* the script plugin's analyze_deps hook on module i
AnalyzeDeps(i) ==
  /\ mods[i].stage = "parsed"
  /\ LET r == FarmPluginScript_analyze_deps(mods[i])
     IN  mods' = [mods EXCEPT ![i] =
           [mods[i] EXCEPT !.deps = r.deps, !.deps_out = Some(r.out),
                           !.stage = "analyzed"]]
  /\ UNCHANGED <<nextMark, notBuild>>

\* the script plugin's process_module hook on module i
ProcessModule(i) ==
  /\ mods[i].stage = "analyzed"
  /\ LET r == FarmPluginScript_process_module(mods[i].module_type[1], mods[i].meta[1])
     IN  mods' = [mods EXCEPT ![i] =
           [mods[i] EXCEPT !.meta = Some(r.meta), !.process_out = Some(r.out),
                           !.stage = "processed"]]
  /\ UNCHANGED <<nextMark, notBuild>>

NextBuild ==
  \/ \E i \in DOMAIN mods : Load(i)
  \/ \E i \in DOMAIN mods : OtherLoad(i)
  \/ \E i \in DOMAIN mods : ParseBegin(i)
  \/ \E i \in DOMAIN mods : ParseFinish(i)
  \/ \E i \in DOMAIN mods : OtherParse(i)
  \/ \E i \in DOMAIN mods : AnalyzeDeps(i)
  \/ \E i \in DOMAIN mods : ProcessModule(i)

-----------------------------------------------------------------------------
(* FarmPluginScript::generate_resources                                    *)

MaxIdLen == 4     \* characters of a resource pot id

PotChars == {"a", ".", "/"}
\* enum ResourcePotType
ResourcePotTypes == {"Runtime", "Js", "Css", "Html", "Asset"}

\* farmfe_toolkit::script::codegen_module: the bytes of the AST, or the
\* emitter's error
codegen_module(ast, emitter_fails) ==
  IF emitter_fails THEN Err("codegen") ELSE Ok(<<"bytes of", ast>>)

JsExt == <<".", "j", "s">>

\* generate_resources without the test of the pot's type
FarmPluginScript_generate_resources_any(resource_pot, emitter_fails) ==
  LET buf == codegen_module(resource_pot.meta.ast, emitter_fails)
  IN  IF ~buf.ok
      THEN Failed([name |-> resource_pot.id, ty |-> resource_pot.resource_pot_type,
                   source |-> buf.error])
      ELSE Handled(<<[bytes |-> buf.value[1],
                      name |-> Replace(resource_pot.id, <<".", ".", "/">>, <<>>) \o JsExt,
                      emitted |-> FALSE,
                      resource_type |-> "Js",
                      resource_pot |-> resource_pot.id]>>)

\* FarmPluginScript::generate_resources
FarmPluginScript_generate_resources(resource_pot, emitter_fails) ==
  IF resource_pot.resource_pot_type = "Js"
  THEN LET buf == codegen_module(resource_pot.meta.ast, emitter_fails)
       IN  IF ~buf.ok
           THEN Failed([name |-> resource_pot.id, ty |-> resource_pot.resource_pot_type,
                        source |-> buf.error])
           ELSE Handled(<<[bytes |-> buf.value[1],
                           name |-> Replace(resource_pot.id, <<".", ".", "/">>, <<>>) \o JsExt,
                           emitted |-> FALSE,
                           resource_type |-> "Js",
                           resource_pot |-> resource_pot.id]>>)
  ELSE NotApplicable

NoPot == [id |-> <<>>, resource_pot_type |-> "Runtime", meta |-> [ast |-> <<>>],
          emitter_fails |-> FALSE]

IdlePot ==
  /\ potIn = NoPot
  /\ potOut = None

\* a completed resource pot, and whether the emitter will fail on it
InitPot ==
  /\ potIn \in [id : SeqsUpTo(PotChars, MaxIdLen) \ {<<>>},
                resource_pot_type : ResourcePotTypes,
                meta : {[ast |-> <<"stmt">>]},
                emitter_fails : BOOLEAN]
  /\ potOut = None

\* the script plugin's generate_resources hook on the pot
GenerateResources ==
  /\ potOut = None
  /\ potOut' = Some(FarmPluginScript_generate_resources(potIn, potIn.emitter_fails))
  /\ UNCHANGED <<potIn, notPot>>

NextPot == GenerateResources

-----------------------------------------------------------------------------
(* generate_resources on two resource pots of one compilation              *)

Pots == [id : SeqsUpTo(PotChars, MaxIdLen) \ {<<>>},
         resource_pot_type : ResourcePotTypes,
         meta : {[ast |-> <<"stmt">>]},
         emitter_fails : BOOLEAN]

IdleEmit == resources = [i \in Slots |-> None]

\* the script plugin's generate_resources hook on the i-th pot
EmitPot(i) ==
  /\ resources[i] = None
  /\ \E pot \in Pots :
       resources' = [resources EXCEPT
                       ![i] = Some(FarmPluginScript_generate_resources(pot, pot.emitter_fails))]
  /\ UNCHANGED notEmit

NextEmit == \E i \in Slots : EmitPot(i)

-----------------------------------------------------------------------------
(* Specifications: one per part of the core                                *)

\* ModuleId construction and resolved_path
InitSpecModuleId == InitModuleId /\ IdleMeta /\ IdleCtx /\ IdleBuild /\ IdlePot
  /\ IdleKeys /\ IdleEmit
SpecModuleId == InitSpecModuleId /\ [][NextModuleId]_vars

\* the typed metadata accessors and the archive round trip of a Module
InitSpecMeta == IdleModuleId /\ InitMeta /\ IdleCtx /\ IdleBuild /\ IdlePot
  /\ IdleKeys /\ IdleEmit
SpecMeta == InitSpecMeta /\ [][NextMeta]_vars

\* the construction of the compilation context
InitSpecCtx == IdleModuleId /\ IdleMeta /\ InitCtx /\ IdleBuild /\ IdlePot
  /\ IdleKeys /\ IdleEmit
SpecCtx == InitSpecCtx /\ [][NextCtx]_vars

\* modules going through the script plugin's hooks, one alone or several
\* side by side under the one compilation context
InitSpecBuild == IdleModuleId /\ IdleMeta /\ IdleCtx /\ InitBuild /\ IdlePot
  /\ IdleKeys /\ IdleEmit
SpecBuild == InitSpecBuild /\ [][NextBuild]_vars

\* the script plugin's generate_resources on a completed resource pot
InitSpecPot == IdleModuleId /\ IdleMeta /\ IdleCtx /\ IdleBuild /\ InitPot
  /\ IdleKeys /\ IdleEmit
SpecPot == InitSpecPot /\ [][NextPot]_vars

\* id(mode) of two ModuleIds, each built by ModuleId::new or from a string
InitSpecKeys == IdleModuleId /\ IdleMeta /\ IdleCtx /\ IdleBuild /\ IdlePot
  /\ IdleKeys /\ IdleEmit
SpecKeys == InitSpecKeys /\ [][NextKeys]_vars

\* generate_resources on two resource pots
InitSpecEmit == IdleModuleId /\ IdleMeta /\ IdleCtx /\ IdleBuild /\ IdlePot
  /\ IdleKeys /\ IdleEmit
SpecEmit == InitSpecEmit /\ [][NextEmit]_vars

-----------------------------------------------------------------------------
(* C4: building a ModuleId from a combined string splits on the first '?': *)
(* with a '?' in the input, relative_path is the text before the first '?' *)
(* and query_string is everything after it, further '?' included; with no  *)
(* '?', relative_path is the whole input and query_string is empty.        *)
C4_SplitOnFirstQuestionMark ==
  (idIn.kind = "from" /\ moduleId # None) =>
    LET s == idIn.str
        i == IndexFrom(s, "?", 1)
    IN  IF i = 0
        THEN moduleId[1] = [relative_path |-> s, query_string |-> <<>>]
        ELSE moduleId[1] = [relative_path |-> SubSeq(s, 1, i - 1),
                            query_string |-> SubSeq(s, i + 1, Len(s))]

(* C5: for every resolved path p, query q and root,                        *)
(* ModuleId::new(p, q, root).resolved_path(root) is p, up to separators.   *)
C5_RoundTripAnyPath ==
  (idIn.kind = "new" /\ resolvedOut # None /\ resolvedOut[1].root = idIn.cwd) =>
    SamePath(resolvedOut[1].path, idIn.resolved_path)

(* C5, amended: for every absolute resolved path p without "." or ".."     *)
(* components, every query q and every absolute project root,              *)
(* ModuleId::new(p, q, root).resolved_path(root) is p, up to separators.   *)
C5_RoundTripAbsolute ==
  (/\ idIn.kind = "new"
   /\ IsAbsolute(idIn.resolved_path)
   /\ IsAbsolute(idIn.cwd)
   /\ resolvedOut # None
   /\ resolvedOut[1].root = idIn.cwd) =>
    SamePath(resolvedOut[1].path, idIn.resolved_path)

\* a path outside the root went there and back: "../b" resolved against "/a"
C5_Witness ==
  /\ idIn.kind = "new"
  /\ IsAbsolute(idIn.resolved_path)
  /\ IsAbsolute(idIn.cwd)
  /\ resolvedOut # None
  /\ resolvedOut[1].root = idIn.cwd
  /\ moduleId[1].relative_path = DotDot \o Slash \o <<"b">>
  /\ resolvedOut[1].path = idIn.resolved_path

(* C6: a typed metadata accessor returns a value only when the active      *)
(* variant is the one it names (and, for as_custom / as_custom_mut, the    *)
(* stored concrete type is T), and then the value is the data of that      *)
(* variant; in every other case it panics and returns nothing.             *)
C6_AccessorsFailLoudly ==
  accessOut # None =>
    LET c == accessOut[1]
        matches == /\ c.on.variant = NamedVariant(c.accessor)
                   /\ (c.on.variant = "Custom" => c.on.custom_type = c.T)
    IN  IF matches
        THEN ~c.panic /\ c.value = Some(c.on.data)
        ELSE c.panic /\ c.value = None

\* as_custom::<StructModuleData>() on a Custom value of another type panicked
C6_Witness ==
  /\ accessOut # None
  /\ accessOut[1].accessor = "as_custom"
  /\ accessOut[1].T = "StructModuleData"
  /\ accessOut[1].on.variant = "Custom"
  /\ accessOut[1].on.custom_type = "OtherModuleData"
  /\ accessOut[1].panic

C1_ConfigHookBeforeContext ==
  ctxOut # None =>
    LET hook == PluginDriver_config(ctxIn.plugins, ctxIn.config)
        out == ctxOut[1]
    IN  IF ~hook.ok
        THEN /\ ~out.ok
             /\ out.value = None
             /\ out.error = hook.error
        ELSE /\ out.ok
             /\ out.value[1].config = hook.config
             /\ out.value[1].module_graph = {}
             /\ out.value[1].module_group_map = {}
             /\ out.value[1].resource_pot_graph = {}
             /\ out.value[1].resources_map = {}

\* a context was built whose configuration two hooks changed, the later one
\* overriding the earlier
C1_Witness ==
  /\ ctxOut # None
  /\ ctxOut[1].ok
  /\ ctxIn.plugins = <<"set_production", "set_root", "set_development">>
  /\ ctxIn.config.mode = "production"
  /\ ctxOut[1].value[1].config = [mode |-> "development", root |-> PathText(TRUE, <<<<"b">>>>)]

\* the module types with a script syntax
ScriptTypes == {MT("Js"), MT("Jsx"), MT("Ts"), MT("Tsx")}

\* module i went through the script plugin's parse and has Script metadata
ScriptParsed(i) ==
  /\ mods[i].parse_out # None
  /\ mods[i].parse_out[1].kind = "handled"
  /\ mods[i].meta # None

(* C2: load returns 'handled', with the file's content and the module      *)
(* type, only when the module type of the resolved path is Js, Jsx, Ts or  *)
(* Tsx, and otherwise 'not applicable' without reading the file; parse     *)
(* returns 'handled' only for a module type with a script syntax and 'not  *)
(* applicable' for every other; a failed read or parse is an error.        *)
C2_ScriptTypesOnly ==
  \A i \in DOMAIN mods :
    LET m == mods[i]
        t == from_ext(m.resolved_path.ext)
    IN  /\ m.load_out # None =>
             IF t \in ScriptTypes
             THEN /\ m.read
                  /\ IF m.file.readable
                     THEN m.load_out[1] = Handled([content |-> m.file.body,
                                                   module_type |-> t])
                     ELSE m.load_out[1].kind = "error"
             ELSE m.load_out[1] = NotApplicable /\ ~m.read
        /\ m.parse_out # None =>
             IF syntax_from_module_type(m.module_type[1]) # None
             THEN LET parsed == parse_module(m.content[1],
                                             syntax_from_module_type(m.module_type[1])[1])
                  IN  IF parsed.ok
                      THEN /\ m.parse_out[1].kind = "handled"
                           /\ m.parse_out[1].value[1].variant = "Script"
                      ELSE m.parse_out[1].kind = "error"
             ELSE m.parse_out[1] = NotApplicable

\* side by side, a stylesheet both hooks passed on without a read, and a
\* script both hooks handled
C2_Witness ==
  \E i, j \in DOMAIN mods :
    /\ mods[i].load_out = Some(NotApplicable)
    /\ ~mods[i].read
    /\ mods[i].parse_out = Some(NotApplicable)
    /\ mods[j].load_out # None /\ mods[j].load_out[1].kind = "handled"
    /\ mods[j].read
    /\ ScriptParsed(j)

(* C3: process_module downgrades a script module's AST in place: type      *)
(* annotations are stripped for Ts and Tsx, JSX is rewritten into plain    *)
(* calls for Jsx and Tsx (for Tsx the strip runs before the rewrite), and  *)
(* the hook returns success for every module type.                         *)
C3_ProcessModuleDowngrades ==
  \A i \in DOMAIN mods :
    mods[i].process_out # None =>
      LET m == mods[i]
          t == m.module_type[1]
          ast == m.meta[1].data.ast
          has(items) == \E k \in 1..Len(ast.body) : ast.body[k] \in items
          pass(name) == \E k \in 1..Len(ast.passes) : ast.passes[k] = name
      IN  /\ m.process_out[1] = Handled(TRUE)
          /\ m.meta[1].variant = "Script" =>
               /\ t \in {MT("Ts"), MT("Tsx")} => ~has({"typed", "import_type"})
               /\ t \in {MT("Jsx"), MT("Tsx")} => ~has({"jsx"})
               /\ t = MT("Tsx") =>
                    \E k, l \in 1..Len(ast.passes) :
                      k < l /\ ast.passes[k] = "strip_with_jsx" /\ ast.passes[l] = "react"

(* C7: parse records module_system = EsModule exactly when the parsed body *)
(* holds a module declaration and CommonJs otherwise, never Hybrid or      *)
(* Custom, and no later hook of the script plugin changes what is recorded.*)
C7_ModuleSystemSyntactic ==
  \A i \in DOMAIN mods :
    ScriptParsed(i) =>
      LET parsed_body == mods[i].content[1]
      IN  /\ mods[i].meta[1].data.module_system \in {EsModule, CommonJs}
          /\ mods[i].meta[1].data.module_system = EsModule
               <=> \E k \in 1..Len(parsed_body) : IsModuleDecl(parsed_body[k])

\* a Ts module whose only module declaration was a type-only import: strip
\* dropped it, and the module is still recorded as an ES module
C7_Witness ==
  \E i \in DOMAIN mods :
    /\ ScriptParsed(i)
    /\ mods[i].stage = "processed"
    /\ mods[i].content[1] = <<"import_type", "stmt">>
    /\ mods[i].meta[1].data.ast.body = <<"stmt">>
    /\ mods[i].meta[1].data.module_system = EsModule

(* C8: within one compilation context the scope marks are unique: every    *)
(* script parse records a top_level_mark and an unresolved_mark that       *)
(* differ from each other and from the marks every other parse recorded,   *)
(* however the parse calls interleave.                                     *)
C8_ScopeMarksUnique ==
  \A i, j \in DOMAIN mods :
    (ScriptParsed(i) /\ ScriptParsed(j)) =>
      LET a == mods[i].meta[1].data
          b == mods[j].meta[1].data
      IN  /\ a.top_level_mark # a.unresolved_mark
          /\ i # j => {a.top_level_mark, a.unresolved_mark}
                        \cap {b.top_level_mark, b.unresolved_mark} = {}

\* two parses interleaved: the second took its top-level mark between the
\* two Mark::new() calls of the first
C8_Witness ==
  \E i, j \in DOMAIN mods :
    /\ ScriptParsed(i) /\ ScriptParsed(j)
    /\ mods[i].meta[1].data.top_level_mark < mods[j].meta[1].data.top_level_mark
    /\ mods[j].meta[1].data.top_level_mark < mods[i].meta[1].data.unresolved_mark
    /\ mods[i].meta[1].data.unresolved_mark < mods[j].meta[1].data.unresolved_mark

(* C9: generate_resources produces bytes only for a Js resource pot: for a *)
(* Js pot exactly one resource, of type Js, not emitted, whose             *)
(* resource_pot is the pot's id, or an error carrying the pot's id and     *)
(* type when code generation fails; for a pot of any other kind 'not       *)
(* applicable' and no resource.                                            *)
C9_ResourcesForJsPotsOnly ==
  potOut # None =>
    LET out == potOut[1]
    IN  IF potIn.resource_pot_type = "Js"
        THEN IF potIn.emitter_fails
             THEN /\ out.kind = "error"
                  /\ out.value = None
                  /\ out.error[1].name = potIn.id
                  /\ out.error[1].ty = "Js"
             ELSE /\ out.kind = "handled"
                  /\ Len(out.value[1]) = 1
                  /\ out.value[1][1].resource_type = "Js"
                  /\ out.value[1][1].emitted = FALSE
                  /\ out.value[1][1].resource_pot = potIn.id
        ELSE out = NotApplicable

\* a Css pot was passed on and produced nothing
C9_Witness ==
  /\ potOut # None
  /\ potIn.resource_pot_type = "Css"
  /\ ~potIn.emitter_fails
  /\ potOut[1].kind = "none"
  /\ potOut[1].value = None

\* both ModuleIds were given their development-form string
DevelopmentKeyed ==
  \A i \in Slots : idKeys[i] # None /\ idKeys[i][1].mode = Development

(* C11: the development-form string identifies a ModuleId: whenever two    *)
(* ModuleIds, each built by ModuleId::new or converted from a combined     *)
(* string, have the same id(Development), their relative_path and their    *)
(* query_string are equal.                                                 *)
C11_DevelopmentIdUnique ==
  (DevelopmentKeyed /\ idKeys[1][1].id = idKeys[2][1].id)
    => /\ ids[1][1].relative_path = ids[2][1].relative_path
       /\ ids[1][1].query_string = ids[2][1].query_string

\* both pots were Js pots and a resource was emitted for each
BothEmitted == \A i \in Slots : resources[i] # None /\ resources[i][1].kind = "handled"

(* C12: the resource names of generate_resources are unique per resource   *)
(* pot: the resources emitted for two Js resource pots with different ids  *)
(* have different names.                                                   *)
C12_ResourceNamesUnique ==
  (/\ BothEmitted
   /\ resources[1][1].value[1][1].resource_pot # resources[2][1].value[1][1].resource_pot)
    => resources[1][1].value[1][1].name # resources[2][1].value[1][1].name

=============================================================================
